---- MODULE Spec2Model ----
(***************************************************************************)
(* Model of the auto-blogging pipeline:                                    *)
(*   - article-service: ArticleController::latest / store and the          *)
(*     articles table (the store),                                         *)
(*   - ai-rewriter-service: rewriteLatest and the functions it awaits,     *)
(*   - the acquisition command ScrapeBeyondChats::handle.                  *)
(***************************************************************************)
EXTENDS Integers, Sequences, FiniteSets, TLC

(***************************************************************************)
(* Bounds of the model                                                     *)
(***************************************************************************)
\* rewrite passes one job instance may start
MaxPasses == 2
\* rows of the articles table
MaxArticles == 4
\* article links of a listing, over all its pages, when the locating loop is checked
MaxLinks == 6
\* article links of a listing, over all its pages, when whole acquisition runs are checked
MaxSiteLinks == 3
\* links of a search result page, when the search strategies are checked
MaxResults == 3

(***************************************************************************)
(* Program constants                                                       *)
(***************************************************************************)
\* rewriteWithGoogleGemini(prompt, retries = 3)
retries == 3
\* Math.pow(2, i) * 10000
BaseDelay == 10000
\* 'title' => 'required|string|max:255'
MaxTitleLen == 255
\* $targetCount = 5
targetCount == 5

\* the job instances of the rewrite script: the scheduled one, and one that overlaps it
Runs == {1, 2}
Scheduled == {1}

Providers == {"google", "openai", "ollama"}

(***************************************************************************)
(* Values                                                                  *)
(***************************************************************************)
\* A URL is the pair of its host and of the path segment the filters look at.
Url(h, s) == [host |-> h, seg |-> s]
NoUrl == Url("", "")

RefA == Url("a.example", "/blog/")
RefB == Url("b.example", "/post/")
OwnUrl == Url("beyondchats.com", "/blog/")
PlainUrl == Url("c.example", "/about/")
SearchUrls == {RefA, RefB, OwnUrl, PlainUrl}

\* Titles of source articles, with the length of each in characters.
Titles == {"Chatbots", "LongTitle"}
TitleLen(t) == IF t = "LongTitle" THEN 250 ELSE 8
\* ' (Rewritten)'
SuffixLen == 12

NoId == 0

RECURSIVE SeqsUpTo(_, _)
SeqsUpTo(S, n) ==
    IF n = 0 THEN {<<>>}
    ELSE LET shorter == SeqsUpTo(S, n - 1)
         IN  shorter \cup {Append(s, x) : s \in {t \in shorter : Len(t) = n - 1}, x \in S}

Range(s) == {s[i] : i \in 1..Len(s)}

RECURSIVE SelectSeqBy(_, _)
\* Array.prototype.filter
SelectSeqBy(s, keep) ==
    IF s = <<>> THEN <<>>
    ELSE (IF Head(s) \in keep THEN <<Head(s)>> ELSE <<>>) \o SelectSeqBy(Tail(s), keep)

\* Array.prototype.slice(0, n)
Slice0(s, n) == SubSeq(s, 1, IF Len(s) < n THEN Len(s) ELSE n)

Max(S) == CHOOSE x \in S : \A y \in S : y <= x

(***************************************************************************)
(* State                                                                   *)
(***************************************************************************)
VARIABLES
    articles,        \* the articles table, in id order (row i has id i)
    LLM_PROVIDER,    \* process.env.LLM_PROVIDER of the rewrite jobs
    pc,              \* per rewrite run: the await the run is suspended at
    passes,          \* per rewrite run: passes started so far
    article,         \* per rewrite run: response.data of fetchLatestArticle
    searchResults,   \* per rewrite run: result of googleSearch
    resultPage,      \* per rewrite run: the results the search engine answered with
    references,      \* per rewrite run: result of scrapeReferenceArticles
    attempts,        \* per rewrite run: outcome of each backend request of this pass
    delays,          \* per rewrite run: waitTime of each backoff sleep of this pass
    rewrittenContent,\* per rewrite run: text returned by rewriteWithLLM
    backendText,     \* per rewrite run: text the backend returned to rewriteWithLLM
    entry,           \* what was started: the script (cron) or the server
    apiKey,          \* whether the API key of the chosen provider is set
    SERP_API_KEY,    \* whether the key of the search API is set
    proc,            \* the node process: new, listening, loaded or exited
    result,          \* per rewrite run: what rewriteLatest returned or threw
    listing,         \* the blog listing: the article links of each page, as written
    pagination,      \* the page numbers the markup of the blog's first page shows
    spc,             \* per acquisition run: where handle is
    lastPage,        \* per acquisition run: $lastPage
    currentPage,     \* per acquisition run: $currentPage
    visited,         \* per acquisition run: the pages it has requested, in order
    failedPages,     \* per acquisition run: the pages it got no article from
    articleUrls,     \* per acquisition run: $articleUrls
    idx,             \* per acquisition run: position of the storing loop in $articleUrls
    scraped,         \* per acquisition run: $scraped
    skipped,         \* per acquisition run: $skipped
    status,          \* per acquisition run: the command's exit status
    webPage,         \* the page an extraction is given
    extraction       \* what the extraction of webPage ended with

storeVars == <<articles>>
scrapeVars == <<listing, pagination, spc, lastPage, currentPage, visited, failedPages,
                articleUrls, idx, scraped, skipped,
                status>>
pageVars == <<webPage, extraction>>
procVars == <<entry, apiKey, SERP_API_KEY, proc, pageVars>>
runVars == <<LLM_PROVIDER, pc, passes, article, searchResults, resultPage, references,
             attempts, delays, rewrittenContent, backendText, result, entry, apiKey,
             SERP_API_KEY, proc, pageVars>>

(***************************************************************************)
(* The store: articles table and ArticleController                         *)
(***************************************************************************)
\* a title: a scraped title followed by n copies of ' (Rewritten)'
Title(b, n) == [base |-> b, suffixes |-> n]
NoTitle == Title("", 0)
TitleLength(t) == TitleLen(t.base) + t.suffixes * SuffixLen

\* Str::slug of a title, and the numbered variants "-1", "-2", ...
Slug(t, n) == [base |-> t.base, suffixes |-> t.suffixes, n |-> n]
StrSlug(t) == Slug(t, 0)

NoArticle ==
    [id |-> NoId, title |-> NoTitle, slug |-> StrSlug(NoTitle), source_url |-> NoUrl,
     version |-> "", is_rewritten |-> FALSE, parent_article_id |-> NoId,
     references |-> <<>>, created_at |-> 0]

Rows(arts) == Range(arts)

\* the timestamps a row created now can get: the clock never runs backwards
\* and has a resolution of one second
Now(arts) ==
    LET last == IF arts = <<>> THEN 0 ELSE Max({a.created_at : a \in Rows(arts)})
    IN  {last, last + 1}

\* Article::where('slug', $slug)->exists()
SlugExists(arts, slug) == \E a \in Rows(arts) : a.slug = slug

\* Article::where('source_url', $url)->exists()
SourceUrlExists(arts, url) == \E a \in Rows(arts) : a.source_url = url

RECURSIVE UniqueSlugFrom(_, _, _)
UniqueSlugFrom(arts, t, n) ==
    IF SlugExists(arts, Slug(t, n)) THEN UniqueSlugFrom(arts, t, n + 1) ELSE Slug(t, n)

\* ScrapeBeyondChats::generateUniqueSlug
generateUniqueSlug(arts, t) == UniqueSlugFrom(arts, t, 0)

\* the slug the Article model gives a row created without one
creatingSlug(arts, t) == UniqueSlugFrom(arts, t, 0)

\* Article::unrewritten(): originals that have no rewrite yet
scopeUnrewritten(a) == a.version = "original" /\ ~a.is_rewritten

\* ->latest()->first(): a row of the greatest created_at (any of them on a tie)
LatestFirst(rows) == {a \in rows : \A b \in rows : b.created_at <= a.created_at}

latestUnscoped(arts) == LatestFirst(Rows(arts))

\* ArticleController::latest: the rows the query can answer with; {} is the 404
latest(arts) == LatestFirst({a \in Rows(arts) : scopeUnrewritten(a)})

\* the 'url' validation rule
IsUrl(u) == u.host # "" /\ u.seg # ""

\* Validator::make(...)->fails() of ArticleController::store
storeValidationFails(arts, req) ==
    \/ req.title = NoTitle
    \/ TitleLength(req.title) > MaxTitleLen
    \/ req.source_url # NoUrl /\ (~IsUrl(req.source_url) \/ SourceUrlExists(arts, req.source_url))
    \/ req.version \notin {"original", "rewritten"}
    \/ req.parent_article_id # NoId /\ req.parent_article_id \notin 1..Len(arts)
    \/ \E i \in 1..Len(req.references) : ~IsUrl(req.references[i])

\* $parentArticle->update(['is_rewritten' => true])
MarkRewritten(arts, id) == [arts EXCEPT ![id].is_rewritten = TRUE]

\* Article::create($validator->validated())
CreateRow(arts, req, at) ==
    Append(arts,
       [id |-> Len(arts) + 1, title |-> req.title,
        slug |-> creatingSlug(arts, req.title),
        source_url |-> req.source_url, version |-> req.version,
        is_rewritten |-> FALSE, parent_article_id |-> req.parent_article_id,
        references |-> req.references, created_at |-> at])

\* store that leaves the parent's flag alone
storeNoMark(arts, req, at) ==
    IF storeValidationFails(arts, req)
    THEN [status |-> 422, articles |-> arts, id |-> NoId]
    ELSE [status |-> 201, id |-> Len(arts) + 1, articles |-> CreateRow(arts, req, at)]

\* store without the validator
storeUnvalidated(arts, req, at) ==
    LET created == CreateRow(arts, req, at)
    IN  [status |-> 201, id |-> Len(arts) + 1,
         articles |-> IF req.version = "rewritten" /\ req.parent_article_id # NoId
                         /\ req.parent_article_id \in 1..Len(created)
                      THEN MarkRewritten(created, req.parent_article_id)
                      ELSE created]

\* ArticleController::store: the response status, the table afterwards, the new id
store(arts, req, at) ==
    IF storeValidationFails(arts, req)
    THEN [status |-> 422, articles |-> arts, id |-> NoId]
    ELSE LET created == CreateRow(arts, req, at)
         IN  [status |-> 201, id |-> Len(arts) + 1,
              articles |-> IF req.version = "rewritten" /\ req.parent_article_id # NoId
                              /\ req.parent_article_id \in 1..Len(created)
                           THEN MarkRewritten(created, req.parent_article_id)
                           ELSE created]

(***************************************************************************)
(* Text: a string is the sequence of its pieces                            *)
(***************************************************************************)
Piece(k, w, n, t, u) == [k |-> k, w |-> w, n |-> n, title |-> t, url |-> u]
\* a run of ordinary words
Word(w) == Piece("word", w, 0, "", NoUrl)
\* a markdown heading line, "## w"
Heading(w) == Piece("heading", w, 0, "", NoUrl)
\* a numbered citation line, "n. [title](url)"
Cite(n, t, u) == Piece("cite", "", n, t, u)
\* white space
Space == Piece("space", "", 0, "", NoUrl)

\* String.prototype.toLowerCase, on the words the model writes
LowerCase(w) ==
    CASE w = "References" -> "references"
      [] w = "REFERENCES" -> "references"
      [] w = "Body" -> "body"
      [] w = "Guide" -> "guide"
      [] OTHER -> w

\* text.toLowerCase().includes('references')
IncludesReferences(text) ==
    \E i \in 1..Len(text) :
        LowerCase(text[i].w) = "references" \/ LowerCase(text[i].title) = "references"

RECURSIVE TrimStart(_)
TrimStart(text) ==
    IF text # <<>> /\ Head(text) = Space THEN TrimStart(Tail(text)) ELSE text

RECURSIVE TrimEnd(_)
TrimEnd(text) ==
    IF text # <<>> /\ text[Len(text)] = Space
    THEN TrimEnd(SubSeq(text, 1, Len(text) - 1)) ELSE text

\* String.prototype.trim
Trim(text) == TrimEnd(TrimStart(text))

\* references.map((ref, i) => `${i + 1}. [${ref.title}](${ref.url})`)
Cites(refs) == [i \in 1..Len(refs) |-> Cite(i, refs[i].title, refs[i].url)]

Reverse(s) == [i \in 1..Len(s) |-> s[Len(s) + 1 - i]]

\* the block appended unconditionally
EnsureReferencesAlways(text, refs) == text \o <<Heading("References")>> \o Cites(refs)

\* the block appended with the citations in reverse
EnsureReferencesReversed(text, refs) ==
    IF ~IncludesReferences(text)
    THEN text \o <<Heading("References")>> \o Cites(Reverse(refs))
    ELSE text

\* rewriteWithLLM, "Ensure References section is at the bottom"
EnsureReferences(text, refs) ==
    IF ~IncludesReferences(text)
    THEN text \o <<Heading("References")>> \o Cites(refs)
    ELSE text

\* the URLs of refs, in order: references.map(ref => ref.url)
RefUrls(refs) == [i \in 1..Len(refs) |-> refs[i].url]

\* the last references heading of a text (0: none)
LastRefHeading(text) ==
    LET at == {i \in 1..Len(text) :
                 text[i].k = "heading" /\ LowerCase(text[i].w) = "references"}
    IN  IF at = {} THEN 0 ELSE Max(at)

\* the URLs the references section of a text cites, in order
RECURSIVE CitedUrls(_)
CitedUrls(text) ==
    IF text = <<>> THEN <<>>
    ELSE (IF Head(text).k = "cite" THEN <<Head(text).url>> ELSE <<>>) \o CitedUrls(Tail(text))

SectionUrls(text) ==
    IF LastRefHeading(text) = 0 THEN <<>>
    ELSE CitedUrls(SubSeq(text, LastRefHeading(text) + 1, Len(text)))

\* what a generation backend can answer a prompt built from refs with
BackendTexts(refs) ==
    { <<Word("Body")>>,
      <<Space, Word("Body"), Space>>,
      <<Word("Body"), Heading("References")>> \o Cites(refs),
      <<Word("Body"), Heading("REFERENCES")>> \o Cites(Reverse(refs)),
      <<Word("Body"), Heading("References")>>,
      <<Word("references"), Word("Body")>> }

(***************************************************************************)
(* The acquisition command, seen from the store                            *)
(***************************************************************************)
SourceUrls == {Url("beyondchats.com", "/blogs/one/"), Url("beyondchats.com", "/blogs/two/")}

\* what ScrapeBeyondChats::scrapeArticle can return for a URL: null or the article data
NoData == [ok |-> FALSE, title |-> NoTitle]
ScrapedData == {NoData} \cup {[ok |-> TRUE, title |-> Title(t, 0)] : t \in Titles}

\* the row Article::create is given by the storing loop
ScrapedRow(arts, url, data, at) ==
    [id |-> Len(arts) + 1, title |-> data.title,
     slug |-> generateUniqueSlug(arts, data.title),
     source_url |-> url, version |-> "original",
     is_rewritten |-> FALSE, parent_article_id |-> NoId,
     references |-> <<>>, created_at |-> at]

\* the articles table with a unique index on slug only
UniqueViolationOfSlug(arts, row) == SlugExists(arts, row.slug)

\* the unique indexes of the articles table: the insert raises SQLSTATE 23000
UniqueViolation(arts, row) ==
    \/ SlugExists(arts, row.slug)
    \/ row.source_url # NoUrl /\ SourceUrlExists(arts, row.source_url)

\* the try block of the storing loop: scrapeArticle, then Article::create
ScrapeAndCreate(arts, url, data, at) ==
    IF ~data.ok
    THEN [outcome |-> "failed", articles |-> arts]
    ELSE LET row == ScrapedRow(arts, url, data, at)
         IN  IF UniqueViolation(arts, row)
             THEN [outcome |-> "skipped", articles |-> arts]
             ELSE [outcome |-> "scraped", articles |-> Append(arts, row)]

\* the iteration without the test of source_url
handleStoreUrlUnchecked(arts, url, data, at) == ScrapeAndCreate(arts, url, data, at)

\* one iteration of the storing loop of ScrapeBeyondChats::handle (step 4)
handleStoreUrl(arts, url, data, at) ==
    IF SourceUrlExists(arts, url)
    THEN [outcome |-> "skipped", articles |-> arts]
    ELSE ScrapeAndCreate(arts, url, data, at)

(***************************************************************************)
(* The acquisition command: locating the oldest articles                   *)
(***************************************************************************)
Scrapers == {1, 2}

\* the URL of the k-th article of the blog
ArticleUrl(k) == Url("beyondchats.com", "/blogs/" \o ToString(k) \o "/")

\* the link sequences of n links in which a new article is always the next unused one
RECURSIVE LinkSeqs(_)
LinkSeqs(n) ==
    IF n = 0 THEN {<<>>}
    ELSE UNION {{Append(s, k) : k \in 1..((IF s = <<>> THEN 0 ELSE Max(Range(s))) + 1)} :
                  s \in LinkSeqs(n - 1)}

\* a link sequence cut into pages after the positions of cuts
RECURSIVE Paginate(_, _, _)
Paginate(links, cuts, from) ==
    IF from > Len(links) THEN <<>>
    ELSE LET ends == {c \in cuts : c >= from} \cup {Len(links)}
             to == CHOOSE c \in ends : \A d \in ends : c <= d
         IN  <<[i \in 1..(to - from + 1) |-> ArticleUrl(links[from + i - 1])]>>
             \o Paginate(links, cuts, to + 1)

\* pages is a listing of at most n article links: page 1 first, no page without a link
IsListing(pages, n) ==
    \E links \in UNION {LinkSeqs(m) : m \in 0..n} :
        \E cuts \in SUBSET (1..(Len(links) - 1)) : pages = Paginate(links, cuts, 1)

\* array_unique over the links collected from a page
RECURSIVE ArrayUnique(_)
ArrayUnique(urls) ==
    IF urls = <<>> THEN <<>>
    ELSE LET front == ArrayUnique(SubSeq(urls, 1, Len(urls) - 1))
             last == urls[Len(urls)]
         IN  IF last \in Range(front) THEN front ELSE Append(front, last)

\* getArticleUrlsFromPage: [] when the page cannot be fetched, else its article links
getArticleUrlsFromPage(pages, page) ==
    {<<>>} \cup (IF page \in 1..Len(pages) THEN {ArrayUnique(pages[page])} ELSE {})

\* the page numbers of a page's markup: in the href of the links the selectors
\* match, in the numeric text of those links, in any href of the HTML, and in
\* the href of a link named last or end
Markup(hrefs, texts, raw, last) == [hrefs |-> hrefs, texts |-> texts, raw |-> raw, last |-> last]

\* the markup of a blog whose first page links to each of its other pages
PaginationOf(pages) ==
    Markup(2..Len(pages), 2..Len(pages), 2..Len(pages), {})

\* findLastPage after the selectors: $maxPage
MaxPageOfLinks(m) == Max({1} \cup m.hrefs \cup m.texts)

\* findLastPage after the regex fallback: $maxPage
MaxPageOfMarkup(m) ==
    IF MaxPageOfLinks(m) = 1
    THEN Max({IF m.raw # {} THEN Max(m.raw) ELSE 1} \cup m.last)
    ELSE MaxPageOfLinks(m)

\* the page found without the final max(1, $maxPage)
DetectLastPageUnbounded(m) == MaxPageOfMarkup(m)

\* findLastPage when the blog page is fetched: max(1, $maxPage)
DetectLastPage(m) == Max({1, MaxPageOfMarkup(m)})

\* findLastPage: 1 when the blog page cannot be fetched, else the page detected
findLastPage(m) == {1, DetectLastPage(m)}

\* the first n of the page instead of the last n
SliceFirst(s, n) == Slice0(s, n)

\* array_slice($pageArticles, -$needed)
SliceLast(s, n) == IF n >= Len(s) THEN s ELSE SubSeq(s, Len(s) - n + 1, Len(s))

\* the foreach that adds every article of the page, known or not
RECURSIVE AddArticlesUnchecked(_, _)
AddArticlesUnchecked(urls, toAdd) ==
    IF toAdd = <<>> THEN urls
    ELSE AddArticlesUnchecked(
            IF Len(urls) < targetCount THEN Append(urls, Head(toAdd)) ELSE urls,
            Tail(toAdd))

\* the foreach that puts the articles of the page before those collected so far
AddArticlesInFront(urls, toAdd) ==
    SelectSeqBy(toAdd, Range(toAdd) \ Range(urls)) \o urls

\* foreach ($articlesToAdd as $article): add it unless known or the list is full
RECURSIVE AddArticles(_, _)
AddArticles(urls, toAdd) ==
    IF toAdd = <<>> THEN urls
    ELSE AddArticles(
            IF Head(toAdd) \notin Range(urls) /\ Len(urls) < targetCount
            THEN Append(urls, Head(toAdd)) ELSE urls,
            Tail(toAdd))

\* the title scrapeArticle reads from the page of an article
PageTitle(url) == Title("Chatbots", 0)

\* scrapeArticle of a listed article: null when the page cannot be fetched
scrapeArticle(url) == {NoData, [ok |-> TRUE, title |-> PageTitle(url)]}

(***************************************************************************)
(* Extraction: scrapeArticle of rewrite-latest.js and of ScrapeBeyondChats *)
(***************************************************************************)
\* the most title selectors, and content selectors, a page matches
MaxTitleMatches == 2
MaxContentMatches == 1

\* the trimmed text of a title element: head characters before its first '|' or
\* '-', rest characters from there on
TitleText(head, rest) == [head |-> head, rest |-> rest]
TitleTexts == {TitleText(0, 0), TitleText(4, 8), TitleText(10, 0), TitleText(11, 0)}

\* the trimmed text of a content element: len characters, of which nl are taken
\* out when runs of newlines are collapsed and sp when runs of blanks are
ContentText(len, nl, sp) == [len |-> len, nl |-> nl, sp |-> sp]
NoContent == ContentText(0, 0, 0)
ContentTexts == {NoContent, ContentText(99, 0, 0), ContentText(100, 0, 0),
                 ContentText(101, 0, 0), ContentText(250, 0, 151),
                 ContentText(150, 60, 0)}

\* const titleSelectors of scrapeArticle
titleSelectors ==
    <<"h1.entry-title", "h1.post-title", "article h1", "h1", ".entry-title", ".post-title",
      "title">>

\* the selectors a page can match together: an h1 with a class, or inside an
\* article, is matched by 'h1' and by the class as well
MatchSets ==
    {M \in SUBSET (1..Len(titleSelectors)) :
        /\ Cardinality(M) <= MaxTitleMatches
        /\ 1 \in M => {4, 5} \subseteq M
        /\ 2 \in M => {4, 6} \subseteq M
        /\ 3 \in M => 4 \in M}

\* a page: the text of the first element each title selector matches, the texts
\* of the first elements the content selectors match, in the order of
\* contentSelectors, and the text of body without its navigation
Page(titles, contents, body) == [titles |-> titles, contents |-> contents, body |-> body]
NoPage == Page(<<>>, <<>>, NoContent)
Pages ==
    {Page(t, c, b) : t \in UNION {[M -> TitleTexts] : M \in MatchSets},
                     c \in SeqsUpTo(ContentTexts, MaxContentMatches),
                     b \in ContentTexts}

\* if (title.length > 10) break
GoodTitle == 10
\* if (!title || title.length < 5)
MinTitle == 5
\* if (content.length > 200) break
GoodContent == 200
\* if (!content || content.length < 100)
MinContent == 100
\* 'Untitled Article'.length
UntitledLen == 16

\* a title: the selector it was read with (0: none) and its length
TitleOf(sel, len) == [sel |-> sel, len |-> len]
NoTitleFound == TitleOf(0, 0)
Untitled == TitleOf(0, UntitledLen)

\* title.split('|')[0].split('-')[0].trim()
StripSiteName(t) == t.head

\* for (const selector of titleSelectors)
RECURSIVE TitleLoop(_, _, _)
TitleLoop(page, i, title) ==
    IF i > Len(titleSelectors) THEN title
    ELSE IF i \in DOMAIN page.titles
    THEN LET t == TitleOf(i, StripSiteName(page.titles[i]))
         IN  IF t.len > GoodTitle THEN t ELSE TitleLoop(page, i + 1, t)
    ELSE TitleLoop(page, i + 1, title)

\* $('title').text().trim().split('|')[0].split('-')[0].trim()
TitleTag(page) ==
    IF Len(titleSelectors) \in DOMAIN page.titles
    THEN TitleOf(Len(titleSelectors), StripSiteName(page.titles[Len(titleSelectors)]))
    ELSE NoTitleFound

\* scrapeArticle, "Extract title"
extractTitle(page) ==
    LET title == TitleLoop(page, 1, NoTitleFound)
    IN  IF title.len = 0 \/ title.len < MinTitle THEN TitleTag(page) ELSE title

\* for (const selector of contentSelectors)
RECURSIVE ContentLoop(_, _, _)
ContentLoop(contents, i, content) ==
    IF i > Len(contents) THEN content
    ELSE IF contents[i].len > GoodContent THEN contents[i]
    ELSE ContentLoop(contents, i + 1, contents[i])

\* scrapeArticle, "Extract main content" with its fallback to body
extractContent(page) ==
    LET content == ContentLoop(page.contents, 1, NoContent)
    IN  IF content.len = 0 \/ content.len < GoodContent THEN page.body ELSE content

\* scrapeArticle, "Clean up content": the length of the text it leaves
Normalize(content) == content.len - content.nl - content.sp

\* no test of the length of the content
InsufficientNever(len) == FALSE

\* !content || content.length < 100
Insufficient(len) == len = 0 \/ len < MinContent

\* what an extraction ends with: a failure (an exception, or null), or title and content
Failure == [ok |-> FALSE, title |-> NoTitleFound, content |-> 0]
Extracted(title, len) == [ok |-> TRUE, title |-> title, content |-> len]

\* scrapeArticle of rewrite-latest.js on a page it fetched
scrapeArticlePage(page) ==
    IF Insufficient(Normalize(extractContent(page))) THEN Failure
    ELSE Extracted(IF extractTitle(page).len = 0 THEN Untitled ELSE extractTitle(page),
                   Normalize(extractContent(page)))

\* ScrapeBeyondChats::cleanHtml: the length of the text it leaves
cleanHtml(content) == content.len - content.nl

\* ScrapeBeyondChats::scrapeArticle, "Extract title": the first element in the
\* document that is a heading, else the title element without the site name
crawlerTitles(page) ==
    LET headings == DOMAIN page.titles \ {Len(titleSelectors)}
    IN  IF headings # {}
        THEN {TitleOf(i, page.titles[i].head + page.titles[i].rest) : i \in headings}
        ELSE {TitleTag(page)}

\* ScrapeBeyondChats::scrapeArticle, "Extract main content": the first element
\* in the document that is a content container, else null
crawlerContents(page) ==
    IF page.contents = <<>> THEN {0} ELSE {cleanHtml(c) : c \in Range(page.contents)}

\* ScrapeBeyondChats::scrapeArticle on a page it fetched
ScrapeBeyondChatsPage(page) ==
    {IF t.len = 0 \/ c = 0 \/ c < MinContent THEN Failure ELSE Extracted(t, c) :
        t \in crawlerTitles(page), c \in crawlerContents(page)}

\* the end of one extraction: who extracted, whether the page was fetched, the
\* result, and whether the caller kept it
Extraction(by, fetched, res, kept) ==
    [by |-> by, fetched |-> fetched, result |-> res, kept |-> kept]
NoExtraction == Extraction("none", FALSE, Failure, FALSE)

(***************************************************************************)
(* The rewrite job: rewriteLatest                                          *)
(***************************************************************************)
Res(kind, success, message, orig, rewr) ==
    [kind |-> kind, success |-> success, message |-> message,
     originalArticleId |-> orig, rewrittenArticleId |-> rewr]
NoResult == Res("none", FALSE, "", NoId, NoId)
Returned(message) == Res("returned", FALSE, message, NoId, NoId)
Succeeded(orig, rewr) == Res("returned", TRUE, "", orig, rewr)
Threw(message) == Res("threw", FALSE, message, NoId, NoId)

\* isBeyondChatsUrl
isBeyondChatsUrl(u) == u # NoUrl /\ u.host = "beyondchats.com"

\* url.includes('/blog/') || url.includes('/article/') || url.includes('/post/')
HasArticlePath(u) == u.seg \in {"/blog/", "/article/", "/post/"}

\* the result links a search engine can answer a query with
SearchLists ==
    {<<>>, <<OwnUrl>>, <<RefA>>, <<RefA, RefB>>, <<RefB, RefA>>, <<PlainUrl, RefB>>}

\* url.includes('google.com'), url.includes('youtube.com'), url.includes('duckduckgo.com')
IsGoogle(u) == u.host = "google.com"
IsYoutube(u) == u.host = "youtube.com"
IsDuckDuckGo(u) == u.host = "duckduckgo.com"

\* cleanUrl.match(/\/\d{4}\/\d{2}\//)
HasDatePath(u) == u.seg = "/2024/05/"

\* the first n entries of links that are in keep, each once (urls.includes, urls.length >= n)
RECURSIVE TakeDistinct(_, _, _, _)
TakeDistinct(urls, links, keep, n) ==
    IF links = <<>> \/ Len(urls) >= n THEN urls
    ELSE TakeDistinct(
            IF Head(links) \in keep /\ Head(links) \notin Range(urls)
            THEN Append(urls, Head(links)) ELSE urls,
            Tail(links), keep, n)

\* the first n entries of links that are in keep (urls.push, urls.length >= n)
RECURSIVE TakeFirst(_, _, _, _)
TakeFirst(urls, links, keep, n) ==
    IF links = <<>> \/ Len(urls) >= n THEN urls
    ELSE TakeFirst(IF Head(links) \in keep THEN Append(urls, Head(links)) ELSE urls,
                   Tail(links), keep, n)

\* a result of a result page: the link of its title and another link inside it
\* (NoUrl: none)
Result(a, more) == [a |-> a, more |-> more]

\* the page whose results are links, none with another link inside
PageOf(links) == [i \in 1..Len(links) |-> Result(links[i], NoUrl)]

\* '.result__a', 'a.result__a', the first a of each .result; organic_results[i].link
TitleLinks(page) == [i \in 1..Len(page) |-> page[i].a]

\* '.web-result a', '.result a': every link inside the results, in document order
RECURSIVE ResultLinks(_)
ResultLinks(page) ==
    IF page = <<>> THEN <<>>
    ELSE <<Head(page).a>> \o (IF Head(page).more # NoUrl THEN <<Head(page).more>> ELSE <<>>)
         \o ResultLinks(Tail(page))

\* const linkSelectors of searchWithDuckDuckGo: the links each selector matches
linkSelectors(page) == <<TitleLinks(page), TitleLinks(page), ResultLinks(page), ResultLinks(page)>>

\* the filter of searchWithSerpAPI
SerpKeeps(u) ==
    u # NoUrl /\ ~isBeyondChatsUrl(u) /\ ~IsGoogle(u) /\ ~IsYoutube(u) /\ HasArticlePath(u)

\* the filter of the selector loop of searchWithDuckDuckGo
SelectorKeeps(u) ==
    ~isBeyondChatsUrl(u) /\ ~IsDuckDuckGo(u) /\ ~IsGoogle(u)
        /\ (HasArticlePath(u) \/ HasDatePath(u))

\* the filter of the loop over .result of searchWithDuckDuckGo
TitleKeeps(u) == ~isBeyondChatsUrl(u) /\ ~IsDuckDuckGo(u) /\ HasArticlePath(u)

\* searchWithSerpAPI over the organic results
searchWithSerpAPI(page) ==
    TakeFirst(<<>>, TitleLinks(page), {u \in Range(TitleLinks(page)) : SerpKeeps(u)}, 2)

\* for (const selector of linkSelectors): each selector adds to urls until it has two
RECURSIVE SelectorLoop(_, _)
SelectorLoop(urls, selectors) ==
    IF selectors = <<>> \/ Len(urls) >= 2 THEN urls
    ELSE SelectorLoop(
            TakeDistinct(urls, Head(selectors),
                         {u \in Range(Head(selectors)) : SelectorKeeps(u)}, 2),
            Tail(selectors))

\* searchWithDuckDuckGo over the result page: the selector loop, then the loop
\* over .result while fewer than two URLs are found
searchWithDuckDuckGo(page) ==
    LET first == SelectorLoop(<<>>, linkSelectors(page))
        second == TakeDistinct(first, TitleLinks(page),
                               {u \in Range(TitleLinks(page)) : TitleKeeps(u)}, 2)
    IN  Slice0(second, 2)

\* googleSearch: the paid API with a key, else the scraped fallback
searchOf(key, page) ==
    IF key THEN searchWithSerpAPI(page) ELSE searchWithDuckDuckGo(page)

\* the filter of scrapeReferenceArticles
filteredUrls(urls) ==
    Slice0(SelectSeqBy(urls, {u \in Range(urls) :
                                u # NoUrl /\ ~isBeyondChatsUrl(u) /\ HasArticlePath(u)}), 2)

\* content.content.length > 100
MinRefContent == 100
\* what scrapeArticle can do for a reference URL: throw, or return content of a length
RefScrapes == {[threw |-> TRUE, len |-> 0], [threw |-> FALSE, len |-> 100],
               [threw |-> FALSE, len |-> 101]}

\* every scrape counts as sufficient
SufficientAlways(outcome) == TRUE

\* the scrape did not throw and content.content.length > 100
Sufficient(outcome) == ~outcome.threw /\ outcome.len > MinRefContent

RECURSIVE PushScraped(_, _, _)
\* the for loop of scrapeReferenceArticles over filteredUrls, given each scrape's outcome
PushScraped(urls, outcome, i) ==
    IF i > Len(urls) THEN <<>>
    ELSE (IF Sufficient(outcome[i])
          THEN <<[url |-> urls[i], title |-> "Guide", content |-> outcome[i].len]>>
          ELSE <<>>)
         \o PushScraped(urls, outcome, i + 1)

\* scrapeReferenceArticles: the lists it can return for the search results
scrapeReferenceArticlesOf(urls) ==
    LET f == filteredUrls(urls)
    IN  {PushScraped(f, o, 1) : o \in [1..Len(f) -> RefScrapes]}

\* the test of rewriteLatest, never true
NoReferencesNever(refs) == FALSE

\* rewriteLatest: references.length === 0
NoReferences(refs) == Len(refs) = 0

RECURSIVE Pow2(_)
Pow2(n) == IF n = 0 THEN 1 ELSE 2 * Pow2(n - 1)

\* a constant wait
waitTimeFlat(i) == BaseDelay

\* rewriteWithGoogleGemini: Math.pow(2, i) * 10000
waitTime(i) == Pow2(i) * BaseDelay

\* what a backend request can end with: text, a response without text, 429, another error
BackendOutcomes == {"200", "malformed", "429", "500"}

\* retry on every error status
GeminiRetriesAny(outcome, i) == outcome \in {"429", "500", "malformed"} /\ i < retries - 1

\* no bound on the retries
GeminiRetriesUnbounded(outcome, i) == outcome = "429" /\ i < retries

\* rewriteWithGoogleGemini: error.response?.status === 429 && i < retries - 1
GeminiRetries(outcome, i) == outcome = "429" /\ i < retries - 1

\* no acquisition run has started
InitScrapers ==
    /\ spc = [s \in Scrapers |-> "idle"]
    /\ lastPage = [s \in Scrapers |-> 0]
    /\ currentPage = [s \in Scrapers |-> 0]
    /\ visited = [s \in Scrapers |-> <<>>]
    /\ failedPages = [s \in Scrapers |-> {}]
    /\ articleUrls = [s \in Scrapers |-> <<>>]
    /\ idx = [s \in Scrapers |-> 0]
    /\ scraped = [s \in Scrapers |-> 0]
    /\ skipped = [s \in Scrapers |-> 0]
    /\ status = [s \in Scrapers |-> ""]

\* no acquisition run has started; the blog lists at most n article links
InitScrape(n) ==
    /\ IsListing(listing, n)
    /\ pagination = PaginationOf(listing)
    /\ InitScrapers

\* the provider initialisation of rewrite-latest.js: the branches that do not exit
ValidConfig(provider, key) ==
    \/ provider = "openai" /\ key
    \/ provider = "google" /\ key
    \/ provider = "ollama"

\* the script has been loaded with a configuration it accepts
InitLoaded ==
    /\ entry = "script"
    /\ apiKey = TRUE
    /\ SERP_API_KEY = TRUE
    /\ proc = "loaded"

\* no page has been extracted
InitNoPage ==
    /\ webPage = NoPage
    /\ extraction = NoExtraction

\* no rewrite run is under way
InitRuns ==
    /\ pc = [r \in Runs |-> "idle"]
    /\ passes = [r \in Runs |-> 0]
    /\ article = [r \in Runs |-> NoArticle]
    /\ searchResults = [r \in Runs |-> <<>>]
    /\ resultPage = [r \in Runs |-> <<>>]
    /\ references = [r \in Runs |-> <<>>]
    /\ attempts = [r \in Runs |-> <<>>]
    /\ delays = [r \in Runs |-> <<>>]
    /\ rewrittenContent = [r \in Runs |-> <<>>]
    /\ backendText = [r \in Runs |-> <<>>]
    /\ result = [r \in Runs |-> NoResult]

\* no rewrite run has started
InitRewrite == InitRuns /\ InitNoPage

Init ==
    /\ articles = <<>>
    /\ LLM_PROVIDER \in Providers
    /\ InitLoaded
    /\ InitRewrite
    /\ InitScrape(0)

\* the acquisition command handles one candidate URL
handle ==
    /\ Len(articles) < MaxArticles
    /\ \E url \in SourceUrls, data \in ScrapedData, at \in Now(articles) :
          articles' = handleStoreUrl(articles, url, data, at).articles
    /\ UNCHANGED <<runVars, scrapeVars>>

\* rewriteLatest ends: it returns res or throws it, and its locals end with it
Finish(r, res) ==
    /\ pc' = [pc EXCEPT ![r] = "done"]
    /\ result' = [result EXCEPT ![r] = res]
    /\ article' = [article EXCEPT ![r] = NoArticle]
    /\ searchResults' = [searchResults EXCEPT ![r] = <<>>]
    /\ resultPage' = [resultPage EXCEPT ![r] = <<>>]
    /\ references' = [references EXCEPT ![r] = <<>>]
    /\ rewrittenContent' = [rewrittenContent EXCEPT ![r] = <<>>]
    /\ backendText' = [backendText EXCEPT ![r] = <<>>]

\* rewriteLatest starts and awaits fetchLatestArticle
fetchLatestArticle(r) ==
    /\ proc = "loaded"
    /\ pc[r] \in {"idle", "done"}
    /\ passes[r] < MaxPasses
    /\ passes' = [passes EXCEPT ![r] = @ + 1]
    /\ attempts' = [attempts EXCEPT ![r] = <<>>]
    /\ delays' = [delays EXCEPT ![r] = <<>>]
    /\ \/ \E a \in latest(articles) :
            /\ article' = [article EXCEPT ![r] = a]
            /\ pc' = [pc EXCEPT ![r] = "googleSearch"]
            /\ result' = [result EXCEPT ![r] = NoResult]
            /\ UNCHANGED <<searchResults, resultPage, references, rewrittenContent,
                           backendText>>
       \/ /\ latest(articles) = {}
          /\ Finish(r, Returned("No articles found"))
       \/ Finish(r, Threw("Failed to fetch latest article"))
    /\ UNCHANGED <<articles, LLM_PROVIDER>>
    /\ UNCHANGED <<scrapeVars, procVars>>

\* the catch of googleSearch rethrows, and rewriteLatest with it
googleSearchRethrow(r) == Finish(r, Threw("Search failed"))

\* the catch blocks of googleSearch and of searchWithDuckDuckGo: return []
googleSearchCatch(r) ==
    /\ searchResults' = [searchResults EXCEPT ![r] = <<>>]
    /\ pc' = [pc EXCEPT ![r] = "scrapeReferenceArticles"]
    /\ UNCHANGED <<resultPage, article, references, rewrittenContent, backendText, result>>

\* rewriteLatest awaits googleSearch, which never throws: the engine answers with one
\* of results, or the request fails and the search returns []
googleSearchOver(r, results) ==
    /\ pc[r] = "googleSearch"
    /\ \/ \E page \in results :
             /\ resultPage' = [resultPage EXCEPT ![r] = page]
             /\ searchResults' = [searchResults EXCEPT ![r] = searchOf(SERP_API_KEY, page)]
             /\ pc' = [pc EXCEPT ![r] = "scrapeReferenceArticles"]
             /\ UNCHANGED <<article, references, rewrittenContent, backendText, result>>
       \/ googleSearchCatch(r)
    /\ UNCHANGED <<articles, LLM_PROVIDER, passes, attempts, delays>>
    /\ UNCHANGED <<scrapeVars, procVars>>

googleSearch(r) == googleSearchOver(r, {PageOf(links) : links \in SearchLists})

\* rewriteLatest awaits scrapeReferenceArticles and tests its result
scrapeReferenceArticles(r) ==
    /\ pc[r] = "scrapeReferenceArticles"
    /\ \E refs \in scrapeReferenceArticlesOf(searchResults[r]) :
          IF NoReferences(refs)
          THEN Finish(r, Returned("No reference articles found"))
          ELSE /\ references' = [references EXCEPT ![r] = refs]
               /\ pc' = [pc EXCEPT ![r] = "rewriteWithLLM"]
               /\ UNCHANGED <<result, article, searchResults, resultPage, rewrittenContent,
                              backendText>>
    /\ UNCHANGED <<articles, LLM_PROVIDER, passes, attempts, delays>>
    /\ UNCHANGED <<scrapeVars, procVars>>

\* rewriteWithLLM got the backend's text: it ensures the references section and returns
LLMReturns(r, text) ==
    /\ backendText' = [backendText EXCEPT ![r] = text]
    /\ rewrittenContent' = [rewrittenContent EXCEPT ![r] = EnsureReferences(text, references[r])]
    /\ pc' = [pc EXCEPT ![r] = "publishArticle"]
    /\ UNCHANGED <<result, article, searchResults, resultPage, references>>

\* rewriteWithLLM rethrows the backend's error, and rewriteLatest rethrows it
LLMThrows(r) == Finish(r, Threw("LLM rewriting failed"))

\* one request of the loop of rewriteWithGoogleGemini
rewriteWithGoogleGemini(r) ==
    /\ pc[r] = "rewriteWithLLM"
    /\ LLM_PROVIDER = "google"
    /\ LET i == Len(attempts[r])
       IN  IF i >= retries
           THEN LLMThrows(r) /\ UNCHANGED <<attempts, delays>>
           ELSE \E outcome \in BackendOutcomes :
                  /\ attempts' = [attempts EXCEPT ![r] = Append(@, outcome)]
                  /\ IF outcome = "200"
                     THEN /\ \E text \in BackendTexts(references[r]) : LLMReturns(r, Trim(text))
                          /\ UNCHANGED delays
                     ELSE IF GeminiRetries(outcome, i)
                     THEN /\ delays' = [delays EXCEPT ![r] = Append(@, waitTime(i))]
                          /\ UNCHANGED <<pc, result, rewrittenContent, backendText, article,
                                         searchResults, resultPage, references>>
                     ELSE LLMThrows(r) /\ UNCHANGED delays
    /\ UNCHANGED <<articles, LLM_PROVIDER, passes>>
    /\ UNCHANGED <<scrapeVars, procVars>>

\* a backend that is asked once
AskOnce(r) ==
    /\ pc[r] = "rewriteWithLLM"
    /\ \E outcome \in BackendOutcomes :
          /\ attempts' = [attempts EXCEPT ![r] = Append(@, outcome)]
          /\ IF outcome = "200"
             THEN \E text \in BackendTexts(references[r]) : LLMReturns(r, Trim(text))
             ELSE LLMThrows(r)
    /\ UNCHANGED <<articles, LLM_PROVIDER, passes, delays>>
    /\ UNCHANGED <<scrapeVars, procVars>>

\* rewriteWithOpenAI: one openai.chat.completions.create
rewriteWithOpenAI(r) == LLM_PROVIDER = "openai" /\ AskOnce(r)

\* rewriteWithOllama: one axios.post
rewriteWithOllama(r) == LLM_PROVIDER = "ollama" /\ AskOnce(r)

\* the body without the reference URLs
PublishRequestWithoutReferences(r) ==
    [title |-> Title(article[r].title.base, article[r].title.suffixes + 1),
     source_url |-> NoUrl, version |-> "rewritten",
     parent_article_id |-> article[r].id, references |-> <<>>]

\* the body rewriteLatest posts
PublishRequest(r) ==
    [title |-> Title(article[r].title.base, article[r].title.suffixes + 1),
     source_url |-> NoUrl, version |-> "rewritten",
     parent_article_id |-> article[r].id, references |-> RefUrls(references[r])]

\* the run reports success whatever the store answered
PublishedAlways(r, resp) == Succeeded(article[r].id, resp.id)

\* what rewriteLatest ends with once the store has answered the create request:
\* publishArticle returns response.data, or throws on an error status
Published(r, resp) ==
    IF resp.status = 201
    THEN Succeeded(article[r].id, resp.id)
    ELSE Threw("Failed to publish article")

\* rewriteLatest awaits publishArticle: POST /api/articles
publishArticle(r) ==
    /\ pc[r] = "publishArticle"
    /\ \/ /\ Len(articles) < MaxArticles
          /\ \E at \in Now(articles) :
               LET resp == store(articles, PublishRequest(r), at)
               IN  /\ articles' = resp.articles
                   /\ Finish(r, Published(r, resp))
       \/ /\ Finish(r, Threw("Failed to publish article"))
          /\ UNCHANGED articles
    /\ UNCHANGED <<LLM_PROVIDER, passes, attempts, delays>>
    /\ UNCHANGED <<scrapeVars, procVars>>

vars == <<storeVars, runVars, scrapeVars>>

Next ==
    \/ handle
    \/ \E r \in Scheduled : fetchLatestArticle(r)
    \/ \E r \in Scheduled : googleSearch(r)
    \/ \E r \in Scheduled : scrapeReferenceArticles(r)
    \/ \E r \in Scheduled : rewriteWithGoogleGemini(r)
    \/ \E r \in Scheduled : rewriteWithOpenAI(r)
    \/ \E r \in Scheduled : rewriteWithOllama(r)
    \/ \E r \in Scheduled : publishArticle(r)

Spec == Init /\ [][Next]_vars

(***************************************************************************)
(* Two overlapping runs of the rewrite script against one store            *)
(***************************************************************************)
\* a store an acquisition run has filled: one original, or two originals created
\* in the same second or in different seconds
Scraped(t) == [ok |-> TRUE, title |-> Title(t, 0)]
SeedOne == handleStoreUrl(<<>>, Url("beyondchats.com", "/blogs/one/"), Scraped("Chatbots"), 1).articles
SeedStores ==
    {SeedOne} \cup
    {handleStoreUrl(SeedOne, Url("beyondchats.com", "/blogs/two/"), Scraped(t), at).articles :
        t \in Titles, at \in Now(SeedOne)}

\* both instances are started with the default provider and run one pass each
InitOverlap ==
    /\ articles \in SeedStores
    /\ LLM_PROVIDER = "google"
    /\ pc = [r \in Runs |-> "idle"]
    /\ passes = [r \in Runs |-> MaxPasses - 1]
    /\ article = [r \in Runs |-> NoArticle]
    /\ searchResults = [r \in Runs |-> <<>>]
    /\ resultPage = [r \in Runs |-> <<>>]
    /\ references = [r \in Runs |-> <<>>]
    /\ attempts = [r \in Runs |-> <<>>]
    /\ delays = [r \in Runs |-> <<>>]
    /\ rewrittenContent = [r \in Runs |-> <<>>]
    /\ backendText = [r \in Runs |-> <<>>]
    /\ result = [r \in Runs |-> NoResult]
    /\ InitNoPage
    /\ InitLoaded
    /\ InitScrape(0)

NextOverlap ==
    \/ \E r \in Runs : fetchLatestArticle(r)
    \/ \E r \in Runs : googleSearch(r)
    \/ \E r \in Runs : scrapeReferenceArticles(r)
    \/ \E r \in Runs : rewriteWithGoogleGemini(r)
    \/ \E r \in Runs : publishArticle(r)

SpecOverlap == InitOverlap /\ [][NextOverlap]_vars

(***************************************************************************)
(* The acquisition command step by step: ScrapeBeyondChats::handle         *)
(***************************************************************************)
\* handle starts: step 1 finds the last page, step 2 starts from it
handleStart(s) ==
    /\ spc[s] = "idle"
    /\ \E page \in findLastPage(pagination) :
          /\ lastPage' = [lastPage EXCEPT ![s] = page]
          /\ currentPage' = [currentPage EXCEPT ![s] = page]
    /\ articleUrls' = [articleUrls EXCEPT ![s] = <<>>]
    /\ visited' = [visited EXCEPT ![s] = <<>>]
    /\ failedPages' = [failedPages EXCEPT ![s] = {}]
    /\ spc' = [spc EXCEPT ![s] = "locate"]
    /\ UNCHANGED <<storeVars, runVars, listing, pagination, idx, scraped, skipped, status>>

\* the loop is left after a page without articles
NoPreviousPage(page) == 0

\* $currentPage-- after a page without articles; continue
PreviousPage(page) == page - 1

\* while (count($articleUrls) < $targetCount && $currentPage >= 1)
Locating(s) == Len(articleUrls[s]) < targetCount /\ currentPage[s] >= 1

\* one iteration of the while loop of step 2
handlePage(s) ==
    /\ spc[s] = "locate"
    /\ Locating(s)
    /\ visited' = [visited EXCEPT ![s] = Append(@, currentPage[s])]
    /\ \E pageArticles \in getArticleUrlsFromPage(listing, currentPage[s]) :
          IF pageArticles = <<>>
          THEN /\ currentPage' = [currentPage EXCEPT ![s] = PreviousPage(@)]
               /\ failedPages' = [failedPages EXCEPT ![s] = @ \cup {currentPage[s]}]
               /\ UNCHANGED articleUrls
          ELSE LET needed == targetCount - Len(articleUrls[s])
                   articlesToAdd == SliceLast(pageArticles, needed)
                   added == AddArticles(articleUrls[s], articlesToAdd)
               IN  /\ articleUrls' = [articleUrls EXCEPT ![s] = added]
                   /\ currentPage' = [currentPage EXCEPT ![s] =
                                         IF Len(added) < targetCount THEN @ - 1 ELSE @]
                   /\ UNCHANGED failedPages
    /\ UNCHANGED <<storeVars, runVars, listing, pagination, spc, lastPage, idx, scraped,
                   skipped, status>>

\* the loop is left: fail without a URL, else step 3 keeps at most targetCount of them
handleCollected(s) ==
    /\ spc[s] = "locate"
    /\ ~Locating(s)
    /\ IF articleUrls[s] = <<>>
       THEN /\ spc' = [spc EXCEPT ![s] = "done"]
            /\ status' = [status EXCEPT ![s] = "FAILURE"]
            /\ UNCHANGED <<articleUrls, idx, scraped, skipped>>
       ELSE /\ articleUrls' = [articleUrls EXCEPT ![s] = Slice0(@, targetCount)]
            /\ idx' = [idx EXCEPT ![s] = 1]
            /\ scraped' = [scraped EXCEPT ![s] = 0]
            /\ skipped' = [skipped EXCEPT ![s] = 0]
            /\ spc' = [spc EXCEPT ![s] = "store"]
            /\ UNCHANGED status
    /\ UNCHANGED <<storeVars, runVars, listing, pagination, lastPage, currentPage, visited,
                   failedPages>>

\* one iteration of the foreach of step 4; after the last one the command succeeds
handleArticle(s) ==
    /\ spc[s] = "store"
    /\ idx[s] <= Len(articleUrls[s])
    /\ \E data \in scrapeArticle(articleUrls[s][idx[s]]), at \in Now(articles) :
          LET out == handleStoreUrl(articles, articleUrls[s][idx[s]], data, at)
          IN  /\ articles' = out.articles
              /\ scraped' = [scraped EXCEPT ![s] = IF out.outcome = "scraped" THEN @ + 1 ELSE @]
              /\ skipped' = [skipped EXCEPT ![s] = IF out.outcome = "skipped" THEN @ + 1 ELSE @]
    /\ idx' = [idx EXCEPT ![s] = @ + 1]
    /\ IF idx[s] = Len(articleUrls[s])
       THEN /\ spc' = [spc EXCEPT ![s] = "done"]
            /\ status' = [status EXCEPT ![s] = "SUCCESS"]
       ELSE UNCHANGED <<spc, status>>
    /\ UNCHANGED <<runVars, listing, pagination, lastPage, currentPage, visited, failedPages,
                   articleUrls>>

\* one run locates the articles of a listing
InitLocate ==
    /\ articles = <<>>
    /\ LLM_PROVIDER = "google"
    /\ InitLoaded
    /\ InitRewrite
    /\ InitScrape(MaxLinks)

First == {1}

NextLocate ==
    \/ \E s \in First : handleStart(s)
    \/ \E s \in First : handlePage(s)
    \/ \E s \in First : handleCollected(s)

SpecLocate == InitLocate /\ [][NextLocate]_vars

\* the command is run again and again, each run after the one before it has ended
InitScrapeTwice ==
    /\ articles = <<>>
    /\ LLM_PROVIDER = "google"
    /\ InitLoaded
    /\ InitRewrite
    /\ InitScrape(MaxSiteLinks)

Ended(s) == \A t \in Scrapers : t < s => spc[t] = "done"

NextScrapeTwice ==
    \/ \E s \in Scrapers : Ended(s) /\ handleStart(s)
    \/ \E s \in Scrapers : handlePage(s)
    \/ \E s \in Scrapers : handleCollected(s)
    \/ \E s \in Scrapers : handleArticle(s)

SpecScrapeTwice == InitScrapeTwice /\ [][NextScrapeTwice]_vars

\* the markup the blog's first page can show, whatever its pages are: page numbers
\* in pagination links and in their text, in other hrefs, in a link named last
Paginations ==
    {Markup(hrefs, texts, hrefs \cup raw, last) :
        hrefs \in SUBSET {0, 2}, texts \in SUBSET {-1, 3},
        raw \in SUBSET {0, 2}, last \in SUBSET {2}}

\* one run over a blog whose first page shows any pagination markup
InitLastPage ==
    /\ articles = <<>>
    /\ LLM_PROVIDER = "google"
    /\ InitLoaded
    /\ InitRewrite
    /\ IsListing(listing, MaxSiteLinks)
    /\ pagination \in Paginations
    /\ InitScrapers

SpecLastPage == InitLastPage /\ [][NextLocate]_vars

(***************************************************************************)
(* The search step over any result page                                    *)
(***************************************************************************)
\* the links of a result page: references, the source's site, a page that is no
\* article, search engines, a video platform, a dated blog URL
ResultUrls ==
    {RefA, RefB, OwnUrl, PlainUrl, Url("google.com", "/blog/"),
     Url("duckduckgo.com", "/post/"), Url("youtube.com", "/post/"),
     Url("d.example", "/2024/05/")}

\* the results of a result page: any title link, with or without a link inside
Results == {Result(a, more) : a \in ResultUrls, more \in {NoUrl, RefB}}

\* the result pages of at most MaxResults results
EngineResults == SeqsUpTo(Results, MaxResults)

\* the script starts with or without the key of the search API
InitSearch ==
    /\ articles = SeedOne
    /\ LLM_PROVIDER = "google"
    /\ entry = "script"
    /\ apiKey = TRUE
    /\ SERP_API_KEY \in BOOLEAN
    /\ proc = "loaded"
    /\ InitRewrite
    /\ InitScrape(0)

NextSearch ==
    \/ \E r \in Scheduled : fetchLatestArticle(r)
    \/ \E r \in Scheduled : googleSearchOver(r, EngineResults)
    \/ \E r \in Scheduled : scrapeReferenceArticles(r)

SpecSearch == InitSearch /\ [][NextSearch]_vars

(***************************************************************************)
(* Process start: the cron script and the Fastify server                   *)
(***************************************************************************)
\* the values LLM_PROVIDER can be set to: the three providers and another name
ProviderNames == Providers \cup {"mistral"}

\* the top-level code of rewrite-latest.js, run when the module is loaded
LoadScript ==
    proc' = IF ValidConfig(LLM_PROVIDER, apiKey) THEN "loaded" ELSE "exited"

\* node src/scripts/rewrite-latest.js: the module is loaded, then rewriteLatest is called
startScript ==
    /\ entry = "script"
    /\ proc = "new"
    /\ LoadScript
    /\ UNCHANGED <<storeVars, scrapeVars, LLM_PROVIDER, pc, passes, article, searchResults,
                   resultPage,
                   references, attempts, delays, rewrittenContent, backendText, result,
                   entry, apiKey, SERP_API_KEY, pageVars>>

\* the server starts: fastify.listen
startServer ==
    /\ entry = "server"
    /\ proc = "new"
    /\ proc' = "listening"
    /\ UNCHANGED <<storeVars, scrapeVars, LLM_PROVIDER, pc, passes, article, searchResults,
                   resultPage,
                   references, attempts, delays, rewrittenContent, backendText, result,
                   entry, apiKey, SERP_API_KEY, pageVars>>

\* POST /rewrite/latest for the first time: the handler imports rewrite-latest.js
postRewriteLatest ==
    /\ entry = "server"
    /\ proc = "listening"
    /\ LoadScript
    /\ UNCHANGED <<storeVars, scrapeVars, LLM_PROVIDER, pc, passes, article, searchResults,
                   resultPage,
                   references, attempts, delays, rewrittenContent, backendText, result,
                   entry, apiKey, SERP_API_KEY, pageVars>>

\* a process is started with any configuration, against a store that holds originals
InitStart ==
    /\ articles \in SeedStores
    /\ LLM_PROVIDER \in ProviderNames
    /\ entry \in {"script", "server"}
    /\ apiKey \in BOOLEAN
    /\ SERP_API_KEY = TRUE
    /\ proc = "new"
    /\ InitRewrite
    /\ InitScrape(0)

NextStart ==
    \/ startScript
    \/ startServer
    \/ postRewriteLatest
    \/ \E r \in Scheduled : fetchLatestArticle(r)
    \/ \E r \in Scheduled : googleSearch(r)
    \/ \E r \in Scheduled : scrapeReferenceArticles(r)
    \/ \E r \in Scheduled : rewriteWithGoogleGemini(r)
    \/ \E r \in Scheduled : rewriteWithOpenAI(r)
    \/ \E r \in Scheduled : rewriteWithOllama(r)
    \/ \E r \in Scheduled : publishArticle(r)

SpecStart == InitStart /\ [][NextStart]_vars

(***************************************************************************)
(* Properties                                                              *)
(***************************************************************************)
AllRateLimited(r) == \A k \in 1..Len(attempts[r]) : attempts[r][k] = "429"
LLMFailed(r) == pc[r] = "done" /\ result[r] = Threw("LLM rewriting failed")
Rewrites(arts, id) == {a \in Rows(arts) : a.version = "rewritten" /\ a.parent_article_id = id}

\* C1: a run whose scraped references are empty makes no backend request: a run
\* that has made a backend request holds a non-empty references list, and a run
\* that ended with 'No reference articles found' made none.
C1_NoBackendCallWithoutReferences ==
    \A r \in Runs :
        /\ (pc[r] # "done" /\ attempts[r] # <<>>) => references[r] # <<>>
        /\ pc[r] \in {"rewriteWithLLM", "publishArticle"} => references[r] # <<>>
        /\ (pc[r] = "done" /\ result[r] = Returned("No reference articles found"))
              => attempts[r] = <<>>

C1_Witness ==
    /\ pc[1] = "done"
    /\ result[1] = Returned("No reference articles found")
    /\ attempts[1] = <<>>
    /\ articles # <<>>

\* C2: the references section of the text rewriteWithLLM returns cites exactly
\* the reference URLs passed in, in their order, whatever the backend wrote.
C2_ReferencesSectionExact ==
    \A r \in Runs :
        pc[r] = "publishArticle" => SectionUrls(rewrittenContent[r]) = RefUrls(references[r])

C4_BackoffIncreasesThenGivesUp ==
    \A r \in Runs :
        (LLM_PROVIDER = "google" /\ attempts[r] # <<>> /\ AllRateLimited(r)) =>
            /\ Len(attempts[r]) <= retries
            /\ \A k \in 1..(Len(delays[r]) - 1) :
                  delays[r][k] < delays[r][k + 1] /\ delays[r][k + 1] = 2 * delays[r][k]
            /\ delays[r] # <<>> => delays[r][1] = BaseDelay
            /\ pc[r] = "rewriteWithLLM" => Len(delays[r]) = Len(attempts[r])
            /\ pc[r] = "done" =>
                  /\ Len(attempts[r]) = retries
                  /\ Len(delays[r]) = retries - 1
                  /\ result[r] = Threw("LLM rewriting failed")

C4_Witness ==
    /\ LLM_PROVIDER = "google"
    /\ LLMFailed(1)
    /\ attempts[1] = <<"429", "429", "429">>
    /\ delays[1] = <<BaseDelay, 2 * BaseDelay>>

\* C5: with any configured backend, a run fails on rate limiting only after
\* `retries` requests were made.
C5_RateLimitRetriedByEveryBackend ==
    \A r \in Runs :
        (LLMFailed(r) /\ attempts[r] # <<>> /\ AllRateLimited(r))
            => Len(attempts[r]) = retries

\* C6: a backend failure other than a rate limit (another error status, or a
\* response without text) is not retried: it is the last request of the call,
\* the run has failed, no delay follows it (the only delays are those of the
\* rate-limited requests before it), and the step that meets it writes nothing
\* to the store.
C6_Unretried ==
    \A r \in Runs : \A k \in 1..Len(attempts[r]) :
        attempts[r][k] \in {"500", "malformed"} =>
            /\ k = Len(attempts[r])
            /\ LLMFailed(r)
            /\ Len(delays[r]) = k - 1

C6_NothingPublished ==
    \A r \in Runs :
        (Len(attempts'[r]) = Len(attempts[r]) + 1
           /\ attempts'[r][Len(attempts'[r])] \in {"500", "malformed"})
        => (articles' = articles /\ pc'[r] = "done" /\ delays'[r] = delays[r])

C6_OtherFailurePropagatesAtOnce == []C6_Unretried /\ [][C6_NothingPublished]_vars

C6_Witness ==
    /\ LLMFailed(1)
    /\ attempts[1] = <<"malformed">>
    /\ delays[1] = <<>>
    /\ Rewrites(articles, 1) = {}
    /\ articles # <<>>

\* a sequence without two equal entries
NoDuplicates(urls) == \A i, j \in 1..Len(urls) : i # j => urls[i] # urls[j]

\* the pages a run has read so far
PagesRead(s) == {p \in 1..Len(listing) : currentPage[s] <= p /\ p <= lastPage[s]}

\* C7: at every point of the locating loop and after it, $articleUrls has at most
\* targetCount (5) entries and no URL twice, whatever the pages of the listing link to.
C7_AtMostFiveNoDuplicates ==
    \A s \in Scrapers :
        Len(articleUrls[s]) <= targetCount /\ NoDuplicates(articleUrls[s])

\* the loop has ended with a full list after reading pages that share a link
C7_Witness ==
    \E s \in Scrapers :
        /\ spc[s] = "store"
        /\ Len(articleUrls[s]) = targetCount
        /\ \E p, q \in PagesRead(s) :
              p # q /\ Range(listing[p]) \cap Range(listing[q]) # {}

\* the source URLs the first run stored (the store was empty before it)
StoredByFirst == {articles[i].source_url : i \in 1..scraped[1]}

\* the candidates the second run has handled so far
HandledBySecond == {i \in 1..Len(articleUrls[2]) : i < idx[2]}

C9_RewrittenSourceNotSelectedAgain ==
    /\ \A a \in Rows(articles) :
          (a.version = "rewritten" /\ a.parent_article_id # NoId)
              => articles[a.parent_article_id].is_rewritten
    /\ \A r \in Scheduled :
          article[r] # NoArticle => Rewrites(articles, article[r].id) = {}

C9_Witness ==
    /\ passes[1] = 2
    /\ pc[1] = "done"
    /\ result[1] = Returned("No articles found")
    /\ Len(articles) = 2
    /\ articles[1].is_rewritten
    /\ Rewrites(articles, 1) # {}

\* C10: the article a pass holds as its source is an original, never a record
\* of version 'rewritten'.
C10_SourceIsOriginal ==
    \A r \in Runs : article[r] # NoArticle => article[r].version = "original"

C10_Witness ==
    /\ pc[1] = "googleSearch"
    /\ passes[1] = 2
    /\ article[1].version = "original"
    /\ \E a \in Rows(articles) :
          a.version = "rewritten" /\ a.created_at >= article[1].created_at

\* the step of run r that ends the await of scrapeReferenceArticles
ScrapedReferences(r) == pc[r] = "scrapeReferenceArticles" /\ pc'[r] # pc[r]

C11_Step ==
    \A r \in Runs :
        ScrapedReferences(r) =>
            /\ \/ pc'[r] = "rewriteWithLLM" /\ references'[r] # <<>>
               \/ /\ pc'[r] = "done"
                  /\ result'[r] = Returned("No reference articles found")
                  /\ articles' = articles
                  /\ article[r].id \in 1..Len(articles')
                  /\ ~articles'[article[r].id].is_rewritten
            /\ filteredUrls(searchResults[r]) = <<>> => pc'[r] = "done"

\* C11: the step that learns that no reference could be used (no search result
\* qualifies, or no qualifying page yields content) ends the run by returning
\* success: false, 'No reference articles found' without throwing; it writes
\* nothing to the store and the source still has is_rewritten = false.
C11_NoReferencesSkipsRewrite == [][C11_Step]_vars

C11_Witness ==
    /\ pc[1] = "done"
    /\ result[1] = Returned("No reference articles found")
    /\ latest(articles) # {}
    /\ \A a \in Rows(articles) : a.version = "original" /\ ~a.is_rewritten


\* C12: every record of version 'rewritten' in the store carries at least one
\* reference URL, after any sequence of rewrite passes and acquisition steps.
C12_RewrittenCarriesReference ==
    \A a \in Rows(articles) : a.version = "rewritten" => Len(a.references) >= 1

C12_Witness ==
    /\ passes[1] = 2
    /\ \E a \in Rows(articles) : a.version = "rewritten" /\ Len(a.references) = 2
    /\ \E a \in Rows(articles) : a.version = "rewritten" /\ Len(a.references) = 1


\* text ends with the block rewriteWithLLM appends for refs
EndsWithBlock(text, refs) ==
    /\ Len(text) > Len(refs)
    /\ SubSeq(text, Len(text) - Len(refs), Len(text)) = <<Heading("References")>> \o Cites(refs)

\* C13: when the text the backend returned has no references heading, the text
\* rewriteWithLLM returns ends with the appended block: the heading and the
\* supplied references, cited in the order supplied.
C13_BlockAppendedWithoutHeading ==
    \A r \in Runs :
        (pc[r] = "publishArticle" /\ LastRefHeading(backendText[r]) = 0)
            => EndsWithBlock(rewrittenContent[r], references[r])


\* C14: with an unsupported provider name, or without the key of the chosen
\* cloud provider, the process never runs: it has not started or it has exited,
\* whether the script or the server was started, and no rewrite run has begun.
C14_MisconfigurationFatalAtStart ==
    ~ValidConfig(LLM_PROVIDER, apiKey) =>
        /\ proc \in {"new", "exited"}
        /\ \A r \in Runs : pc[r] = "idle" /\ attempts[r] = <<>>


\* a step of run r out of publishArticle whose request the validator of store rejects
RejectedPublish(r) ==
    /\ pc[r] = "publishArticle"
    /\ pc'[r] # pc[r]
    /\ storeValidationFails(articles, PublishRequest(r))

C15_Step ==
    \A r \in Runs :
        RejectedPublish(r) =>
            /\ pc'[r] = "done"
            /\ result'[r] = Threw("Failed to publish article")
            /\ attempts'[r] = attempts[r]
            /\ articles' = articles
            /\ Rewrites(articles', article[r].id) = {}
            /\ ~articles'[article[r].id].is_rewritten

\* C15: when store answers the create request of a run with a validation
\* failure, the run ends at once by throwing 'Failed to publish article': no
\* further request is made, the store is unchanged, it holds no rewritten record
\* of the source and the source still has is_rewritten = false.
C15_RejectedPublishFailsRun == [][C15_Step]_vars

C15_Witness ==
    /\ pc[1] = "done"
    /\ result[1] = Threw("Failed to publish article")
    /\ attempts[1] # <<>>
    /\ articles # <<>>
    /\ \A a \in Rows(articles) :
          a.version = "original" /\ ~a.is_rewritten /\ a.title.base = "LongTitle"


\* the smaller of two numbers
Min(a, b) == IF a < b THEN a ELSE b

\* the last n entries of s, in the order of s
LastOf(s, n) == [i \in 1..n |-> s[Len(s) - n + i]]

\* C16: a run over a listing of one page that has collected its URLs holds exactly
\* the last min(n, 5) of the n article links of the page, in the order of the page.
C16_SinglePageTakesLastLinks ==
    \A s \in Scrapers :
        (spc[s] = "store" /\ Len(listing) = 1) =>
            LET links == ArrayUnique(listing[1])
            IN  articleUrls[s] = LastOf(links, Min(Len(links), targetCount))

\* a page of more links than the batch size has been cut to its last five
C16_Witness ==
    /\ Len(listing) = 1
    /\ Len(ArrayUnique(listing[1])) > targetCount
    /\ spc[1] = "store"
    /\ articleUrls[1] = SubSeq(listing[1], 2, targetCount + 1)


\* the position of x in s (0: not in s)
PositionIn(s, x) == IF x \in Range(s) THEN CHOOSE i \in 1..Len(s) : s[i] = x ELSE 0

\* the entries of a are entries of b and follow each other as they do in b
InOrderOf(a, b) ==
    /\ Range(a) \subseteq Range(b)
    /\ \A i, j \in 1..Len(a) : i < j => PositionIn(b, a[i]) < PositionIn(b, a[j])

\* the article links of page p of the listing, as getArticleUrlsFromPage reads them
LinksOfPage(p) == IF p \in 1..Len(listing) THEN ArrayUnique(listing[p]) ELSE <<>>

\* the pages a run has requested are lastPage, lastPage - 1, ... without a gap or
\* a repeat, and none is below 1
C17_Visits ==
    \A s \in Scrapers : \A i \in 1..Len(visited[s]) :
        visited[s][i] = lastPage[s] - i + 1 /\ visited[s][i] >= 1

\* a request of a page leaves the URLs collected so far in place and appends
\* links of that page only, in the order of the page
C17_Step ==
    \A s \in Scrapers :
        visited'[s] # visited[s] /\ visited'[s] # <<>> =>
            LET old == articleUrls[s]
                new == articleUrls'[s]
            IN  /\ visited'[s] = Append(visited[s], currentPage[s])
                /\ Len(new) >= Len(old)
                /\ SubSeq(new, 1, Len(old)) = old
                /\ InOrderOf(SubSeq(new, Len(old) + 1, Len(new)), LinksOfPage(currentPage[s]))

\* C17: a run requests the listing pages in strictly descending index from the
\* last page it detected, each at most once, and appends the links it accepts
\* in that order: the batch is ordered by page, the oldest page first, and
\* within a page as the page lists them.
C17_DescendingVisitsAppendInOrder == []C17_Visits /\ [][C17_Step]_vars

\* a run has filled its batch from three pages
C17_Witness ==
    /\ spc[1] = "store"
    /\ visited[1] = <<3, 2, 1>>
    /\ Len(articleUrls[1]) = targetCount
    /\ \A p \in 1..3 : Range(articleUrls[1]) \cap Range(listing[p]) # {}


\* the markup shows no page number at all
NoPagination(m) == m.hrefs = {} /\ m.texts = {} /\ m.raw = {} /\ m.last = {}

\* C18: the page findLastPage returned to a run is at least 1, and it is 1 when
\* the markup of the blog's first page shows no page number.
C18_LastPageAtLeastOne ==
    \A s \in Scrapers :
        spc[s] # "idle" =>
            /\ lastPage[s] >= 1
            /\ NoPagination(pagination) => lastPage[s] = 1

\* a run got page 1 from markup whose only page number is 0
C18_Witness ==
    /\ spc[1] # "idle"
    /\ pagination = Markup({0}, {-1}, {0}, {})
    /\ lastPage[1] = 1
    /\ visited[1] = <<1>>


\* a request of a page that yields no article leaves the collected URLs as they
\* are, moves the run to the page before it and does not end the run
C19_Step ==
    \A s \in Scrapers :
        failedPages'[s] # failedPages[s] /\ failedPages'[s] # {} =>
            /\ failedPages'[s] = failedPages[s] \cup {currentPage[s]}
            /\ articleUrls'[s] = articleUrls[s]
            /\ currentPage'[s] = currentPage[s] - 1
            /\ spc'[s] = "locate"
            /\ status'[s] = ""

\* a run goes on to the storing loop only with a URL, and it ends without one only
\* after page 1, every page from the last one down having been requested, by
\* returning FAILURE
C19_Ends ==
    \A s \in Scrapers :
        /\ spc[s] = "store" => articleUrls[s] # <<>>
        /\ (spc[s] = "done" /\ articleUrls[s] = <<>>) =>
              /\ status[s] = "FAILURE"
              /\ currentPage[s] = 0
              /\ Len(visited[s]) = lastPage[s]

\* C19: a listing page that cannot be fetched contributes no article and the run
\* goes on with the page before it; a run that has gone below page 1 with nothing
\* collected ends by returning the FAILURE status.
C19_FailedPageSkippedFailureReported == []C19_Ends /\ [][C19_Step]_vars

\* a run that could not fetch the last page has collected the links of the page before it
C19_Witness ==
    /\ lastPage[1] = 2
    /\ failedPages[1] = {2}
    /\ visited[1] = <<2, 1>>
    /\ spc[1] = "store"
    /\ articleUrls[1] = LinksOfPage(1)


\* C20: the URLs a search returned, by either strategy, are at most two, and
\* none of them is a BeyondChats URL, a search engine's URL or a video
\* platform's URL.
C20_SearchResultsFiltered ==
    \A r \in Runs :
        /\ Len(searchResults[r]) <= 2
        /\ \A i \in 1..Len(searchResults[r]) :
              LET u == searchResults[r][i]
              IN  ~isBeyondChatsUrl(u) /\ ~IsGoogle(u) /\ ~IsDuckDuckGo(u) /\ ~IsYoutube(u)


\* ---------------------------------------------------------------------------
\* C21: the scraped fallback returns the hits of one selector only
\* ---------------------------------------------------------------------------

\* the first two distinct qualifying links among those a selector matches
HitsOf(links) == TakeDistinct(<<>>, links, {u \in Range(links) : SelectorKeeps(u)}, 2)

\* the selectors of a page that yield at least one qualifying hit
Yielding(page) ==
    {i \in 1..Len(linkSelectors(page)) : HitsOf(linkSelectors(page)[i]) # <<>>}

\* the first selector of a page that yields a qualifying hit
FirstYielding(page) == CHOOSE i \in Yielding(page) : \A j \in Yielding(page) : i <= j

\* C21: in the scraped-fallback search the returned URLs are the qualifying hits
\* of the first result-link selector that yields at least one, in its order;
\* nothing of a later selector or of the result-title pass is merged in.
C21_SingleSelectorResults ==
    \A r \in Runs :
        (pc[r] = "scrapeReferenceArticles" /\ ~SERP_API_KEY
            /\ Yielding(resultPage[r]) # {})
        => searchResults[r] = HitsOf(linkSelectors(resultPage[r])[FirstYielding(resultPage[r])])


\* ---------------------------------------------------------------------------
\* C22: the references keep the order of the search results
\* ---------------------------------------------------------------------------

\* a is b with entries left out
RECURSIVE IsSubsequence(_, _)
IsSubsequence(a, b) ==
    IF a = <<>> THEN TRUE
    ELSE IF b = <<>> THEN FALSE
    ELSE IF Head(a) = Head(b) THEN IsSubsequence(Tail(a), Tail(b))
    ELSE IsSubsequence(a, Tail(b))

\* the reference URLs of the create request are the search results with entries
\* left out
PublishedInSearchOrder ==
    \A r \in Runs :
        pc[r] = "publishArticle"
            => IsSubsequence(PublishRequest(r).references, searchResults[r])

\* C22: the reference URLs a run publishes, and those the references section of
\* the published text cites, follow each other as in the list the search
\* returned: each is that list with entries left out.
C22_ReferencesInSearchOrder ==
    \A r \in Runs :
        pc[r] = "publishArticle"
            => /\ IsSubsequence(PublishRequest(r).references, searchResults[r])
               /\ IsSubsequence(SectionUrls(rewrittenContent[r]), searchResults[r])


(***************************************************************************)
(* Extraction of one page by the reference scraper and by the acquisition  *)
(***************************************************************************)
\* one iteration of the for loop of scrapeReferenceArticles: scrapeArticle
\* throws, or its result is pushed when its content is longer than 100
scrapeReference ==
    /\ extraction.by = "none"
    /\ \/ extraction' = Extraction("reference", FALSE, Failure, FALSE)
       \/ LET content == scrapeArticlePage(webPage)
          IN  extraction' = Extraction("reference", TRUE, content,
                                       content.ok /\ content.content > MinRefContent)
    /\ UNCHANGED <<storeVars, scrapeVars, LLM_PROVIDER, pc, passes, article, searchResults,
                   resultPage, references, attempts, delays, rewrittenContent, backendText,
                   result, entry, apiKey, SERP_API_KEY, proc, webPage>>

\* one iteration of the storing loop of ScrapeBeyondChats::handle, as far as
\* scrapeArticle: null, or the data the article is created from
scrapeListed ==
    /\ extraction.by = "none"
    /\ \/ extraction' = Extraction("acquisition", FALSE, Failure, FALSE)
       \/ \E articleData \in ScrapeBeyondChatsPage(webPage) :
             extraction' = Extraction("acquisition", TRUE, articleData, articleData.ok)
    /\ UNCHANGED <<storeVars, scrapeVars, LLM_PROVIDER, pc, passes, article, searchResults,
                   resultPage, references, attempts, delays, rewrittenContent, backendText,
                   result, entry, apiKey, SERP_API_KEY, proc, webPage>>

\* any page is extracted once, by either scraper
InitExtract ==
    /\ articles = <<>>
    /\ LLM_PROVIDER = "google"
    /\ InitLoaded
    /\ InitRuns
    /\ InitScrape(0)
    /\ webPage \in Pages
    /\ extraction = NoExtraction

NextExtract ==
    \/ scrapeReference
    \/ scrapeListed

SpecExtract == InitExtract /\ [][NextExtract]_vars

\* ---------------------------------------------------------------------------
\* C23: no extraction result with a body below the minimum
\* ---------------------------------------------------------------------------

\* C23: an extraction never ends with a result whose body is shorter than the
\* minimum content threshold; a page whose normalized body is below it ends in
\* failure and is not kept, for the reference scraper and for the acquisition.
C23_NoShortBody ==
    /\ extraction.result.ok => extraction.result.content >= MinContent
    /\ extraction.kept => extraction.result.ok
    /\ (extraction.by = "reference" /\ Normalize(extractContent(webPage)) < MinContent)
           => ~extraction.result.ok /\ ~extraction.kept
    /\ (extraction.by = "acquisition" /\ \A c \in crawlerContents(webPage) : c < MinContent)
           => ~extraction.result.ok /\ ~extraction.kept

\* the reference scraper fetched a page whose text passes the test of the
\* selector loop and is below the minimum once normalized; the acquisition
\* fetched a page whose only container is too short
C23_Witness ==
    /\ extraction.fetched
    /\ ~extraction.result.ok
    /\ \/ /\ extraction.by = "reference"
          /\ extractContent(webPage).len > GoodContent
          /\ Normalize(extractContent(webPage)) = MinContent - 1
       \/ /\ extraction.by = "acquisition"
          /\ webPage.titles # <<>>
          /\ crawlerContents(webPage) = {MinContent - 1}


\* ---------------------------------------------------------------------------
\* C24: no result without a title
\* ---------------------------------------------------------------------------

\* C24: whenever an extraction ends with a result, its body is at least the
\* minimum content length and its title was read from the page and is not
\* empty; a page without a title ends in failure.
C24_NeverPartiallyValid ==
    extraction.result.ok
        => /\ extraction.result.content >= MinContent
           /\ extraction.result.title.sel \in DOMAIN webPage.titles
           /\ extraction.result.title.len >= 1

\* ---------------------------------------------------------------------------
\* C27: the title the selector cascade chooses
\* ---------------------------------------------------------------------------

\* the title selectors of a page whose text, without the site name, is longer
\* than GoodTitle
LongTitles(page) ==
    {i \in DOMAIN page.titles : StripSiteName(page.titles[i]) > GoodTitle}

\* the title selectors of a page that give a text
Candidates(page) == {i \in DOMAIN page.titles : StripSiteName(page.titles[i]) > 0}

\* the first selector of a set, in the order of titleSelectors
MostSpecific(sels) == CHOOSE i \in sels : \A j \in sels : i <= j

\* C27: the title scrapeArticle of the rewrite job returns is read with the
\* first selector of the cascade whose text is longer than 10 characters; when
\* no selector gives such a text, it is read with the first selector that
\* gives a text.
C27_TitleOfFirstGoodSelector ==
    (extraction.by = "reference" /\ extraction.result.ok /\ Candidates(webPage) # {})
        => extraction.result.title.sel =
              IF LongTitles(webPage) # {} THEN MostSpecific(LongTitles(webPage))
              ELSE MostSpecific(Candidates(webPage))

\* ---------------------------------------------------------------------------
\* C25: the search never raises
\* ---------------------------------------------------------------------------

\* C25: the search step of a run never ends the run with an error: whatever
\* the engine answers, and when the request fails, the run goes on to scrape
\* the at most two URLs found, and with none found it ends with 'No reference
\* articles found'.
C25_SearchNeverRaises ==
    [][\A r \in Runs :
          /\ (pc[r] = "googleSearch" /\ pc'[r] # pc[r])
                => /\ pc'[r] = "scrapeReferenceArticles"
                   /\ result'[r] = result[r]
                   /\ Len(searchResults'[r]) <= 2
          /\ (pc[r] = "scrapeReferenceArticles" /\ searchResults[r] = <<>> /\ pc'[r] # pc[r])
                => /\ pc'[r] = "done"
                   /\ result'[r] = Returned("No reference articles found")]_vars

\* a search found nothing, answered by no page, and the run is about to scrape
C25_Witness ==
    \E r \in Runs :
        /\ pc[r] = "scrapeReferenceArticles"
        /\ searchResults[r] = <<>>
        /\ resultPage[r] = <<>>
        /\ result[r] = NoResult


\* ---------------------------------------------------------------------------
\* C26: a failed reference is skipped, the other one is used
\* ---------------------------------------------------------------------------

\* C26: the references a run rewrites with are the URLs of the search whose
\* scrape gave more than the minimum content, in their order, and nothing else:
\* a URL whose scrape failed or was insufficient is left out, and the prompt
\* and the published references list are made of the remaining ones only.
C26_OnlyFailedReferenceSkipped ==
    \A r \in Runs :
        pc[r] \in {"rewriteWithLLM", "publishArticle"}
            => /\ references[r] # <<>>
               /\ \A i \in 1..Len(references[r]) : references[r][i].content > MinRefContent
               /\ IsSubsequence(RefUrls(references[r]), filteredUrls(searchResults[r]))
               /\ PublishRequest(r).references = RefUrls(references[r])
               /\ pc[r] = "publishArticle" => backendText[r] \in BackendTexts(references[r])

\* the search gave two URLs to scrape, one reference was scraped, and the run
\* is about to publish the text rewritten with it
C26_Witness ==
    \E r \in Runs :
        /\ pc[r] = "publishArticle"
        /\ Len(filteredUrls(searchResults[r])) = 2
        /\ Len(references[r]) = 1
        /\ PublishRequest(r).references = <<filteredUrls(searchResults[r])[2]>>


\* ---------------------------------------------------------------------------
\* C28: a pass selects the most recently created unprocessed article
\* ---------------------------------------------------------------------------

\* an original that has not been marked as rewritten
Unprocessed(a) == a.version = "original" /\ ~a.is_rewritten

\* C28: every rewrite pass selects the most recently created unprocessed
\* article, the one stored last: no article stored before another unprocessed
\* one is rewritten while that one is unprocessed, so a pass that follows a
\* failed pass selects the same article again.
C28_SelectsMostRecentlyCreated ==
    [][\A r \in Runs :
          (pc[r] \in {"idle", "done"} /\ pc'[r] = "googleSearch")
              => /\ Unprocessed(article'[r])
                 /\ \A b \in Rows(articles) : Unprocessed(b) => b.id <= article'[r].id]_vars

\* every pass selects an unprocessed article of the greatest created_at
SelectsGreatestCreatedAt ==
    [][\A r \in Runs :
          (pc[r] \in {"idle", "done"} /\ pc'[r] = "googleSearch")
              => /\ Unprocessed(article'[r])
                 /\ \A b \in Rows(articles) :
                       Unprocessed(b) => b.created_at <= article'[r].created_at]_vars


\* ---------------------------------------------------------------------------
\* C29: one create request per run, after the backend's text
\* ---------------------------------------------------------------------------

\* run r takes a step of rewriteLatest
RunStep(r) == pc'[r] # pc[r] \/ result'[r] # result[r] \/ passes'[r] # passes[r]

\* the step appends one rewritten record of the article run r selected
CreatesRewriteOf(r) ==
    /\ Len(articles') = Len(articles) + 1
    /\ articles'[Len(articles')].version = "rewritten"
    /\ articles'[Len(articles')].parent_article_id = article[r].id

C29_Step ==
    \A r \in Runs :
        \* the create request is the last step of a run and is sent with a text
        /\ (pc[r] = "publishArticle" /\ RunStep(r))
              => /\ pc'[r] = "done"
                 /\ backendText[r] # <<>>
                 /\ articles' = articles \/ CreatesRewriteOf(r)
        \* no other step of a run sends one
        /\ (pc[r] # "publishArticle" /\ RunStep(r)) => articles' = articles
        \* success is reported for a create request that succeeded
        /\ (RunStep(r) /\ result'[r].success)
              => /\ pc[r] = "publishArticle"
                 /\ CreatesRewriteOf(r)
                 /\ result'[r].rewrittenArticleId = Len(articles')
        \* a run that ends otherwise has created nothing
        /\ (RunStep(r) /\ pc'[r] = "done" /\ ~result'[r].success) => articles' = articles

\* C29: a rewrite run sends its create request in its last step only, after a
\* backend returned text, so at most once; a run that ends with 'No articles
\* found', 'No reference articles found' or an error creates nothing, and a run
\* reports success only when that request created the rewritten record.
C29_OneCreateAfterText == [][C29_Step]_vars

\* a run has reported success and the store holds the rewritten record it names
C29_Witness ==
    \E r \in Runs :
        /\ pc[r] = "done"
        /\ result[r].success
        /\ result[r].rewrittenArticleId \in 1..Len(articles)
        /\ articles[result[r].rewrittenArticleId].parent_article_id
              = result[r].originalArticleId

(***************************************************************************)
(* Two acquisition runs that overlap: the existence test of the storing    *)
(* loop and the insert are separate requests to the database               *)
(***************************************************************************)
\* the iteration is over: the next URL, or the command succeeds after the last
NextUrl(s) ==
    /\ idx' = [idx EXCEPT ![s] = @ + 1]
    /\ IF idx[s] = Len(articleUrls[s])
       THEN /\ spc' = [spc EXCEPT ![s] = "done"]
            /\ status' = [status EXCEPT ![s] = "SUCCESS"]
       ELSE /\ spc' = [spc EXCEPT ![s] = "store"]
            /\ UNCHANGED status

\* Article::where('source_url', $url)->exists() of the storing loop
handleExists(s) ==
    /\ spc[s] = "store"
    /\ idx[s] <= Len(articleUrls[s])
    /\ IF SourceUrlExists(articles, articleUrls[s][idx[s]])
       THEN /\ skipped' = [skipped EXCEPT ![s] = @ + 1]
            /\ NextUrl(s)
       ELSE /\ spc' = [spc EXCEPT ![s] = "create"]
            /\ UNCHANGED <<skipped, idx, status>>
    /\ UNCHANGED <<storeVars, runVars, listing, pagination, lastPage, currentPage, visited,
                   failedPages, articleUrls, scraped>>

\* the rest of the iteration: scrapeArticle, the slug, Article::create and its catch
handleCreate(s) ==
    /\ spc[s] = "create"
    /\ \E data \in scrapeArticle(articleUrls[s][idx[s]]), at \in Now(articles) :
          LET out == ScrapeAndCreate(articles, articleUrls[s][idx[s]], data, at)
          IN  /\ articles' = out.articles
              /\ scraped' = [scraped EXCEPT ![s] = IF out.outcome = "scraped" THEN @ + 1 ELSE @]
              /\ skipped' = [skipped EXCEPT ![s] = IF out.outcome = "skipped" THEN @ + 1 ELSE @]
    /\ NextUrl(s)
    /\ UNCHANGED <<runVars, listing, pagination, lastPage, currentPage, visited, failedPages,
                   articleUrls>>

NextRace ==
    \/ \E s \in Scrapers : handleStart(s)
    \/ \E s \in Scrapers : handlePage(s)
    \/ \E s \in Scrapers : handleCollected(s)
    \/ \E s \in Scrapers : handleExists(s)
    \/ \E s \in Scrapers : handleCreate(s)

SpecRace == InitScrapeTwice /\ [][NextRace]_vars

\* ---------------------------------------------------------------------------
\* C30: overlapping acquisition runs store no source_url twice
\* ---------------------------------------------------------------------------

\* the URL run s is handling
CurrentUrl(s) == articleUrls[s][idx[s]]

\* run s inserts a URL that was stored after s tested for it
C30_Step ==
    \A s \in Scrapers :
        (spc[s] = "create" /\ spc'[s] # "create"
              /\ SourceUrlExists(articles, CurrentUrl(s)))
            => /\ articles' = articles
               /\ scraped'[s] = scraped[s]
               /\ skipped'[s] \in {skipped[s], skipped[s] + 1}
               /\ idx'[s] = idx[s] + 1
               /\ IF idx[s] = Len(articleUrls[s])
                  THEN spc'[s] = "done" /\ status'[s] = "SUCCESS"
                  ELSE spc'[s] = "store"

\* C30: however two acquisition runs interleave, no two stored articles share a
\* source_url; a run whose insert meets a URL stored since its existence test
\* stores nothing for it, counts it as skipped at most once, goes on with its
\* next URL and ends with success.
C30_NoSharedSourceUrl ==
    /\ [](\A i, j \in 1..Len(articles) :
            i # j => articles[i].source_url # articles[j].source_url)
    /\ [](\A s \in Scrapers :
            (spc[s] = "done" /\ articleUrls[s] # <<>>) => status[s] = "SUCCESS")
    /\ [][C30_Step]_vars

\* both runs passed the existence test for the same URL, the first has stored
\* it and ended with success, the second is about to insert it
C30_Witness ==
    /\ spc[1] = "done" /\ status[1] = "SUCCESS"
    /\ spc[2] = "create"
    /\ SourceUrlExists(articles, CurrentUrl(2))
    /\ scraped[1] >= 1

====
